---- MODULE Spec2Model ----
(***************************************************************************)
(* Model of DataGeneration_cleaning.py: main() runs generate_files() and   *)
(* then process_files() under two exception handlers.  process_files()    *)
(* walks tmp/flights, counts total and dirty records, puts every record    *)
(* into one pandas DataFrame and derives the top-25 table and the two      *)
(* max-passenger cities from it.                                           *)
(*                                                                         *)
(* Spec   : the whole program, main() on a disk that may hold an older     *)
(*          tmp/flights.                                                   *)
(* SpecP  : process_files() under main's handlers on a directory whose     *)
(*          content is arbitrary (any files of FileLib).                   *)
(***************************************************************************)
EXTENDS Integers, Sequences, FiniteSets, TLC

\* ------------------------------------------------------------------ bounds
\* Number of files of FileLib that tmp/flights may hold before the run.
MaxFiles == 2
\* Number of files generate_files writes (5000 in the source, line 32).
number_files == 2

\* --------------------------------------------------------------- constants
total_cities == 150
TopN == 25
\* Python's None (JSON null); every real field value is >= 0.
Null == -1

Keys == {"date", "origin_city", "destination_city", "flight_duration_secs",
         "num_passengers"}

\* ----------------------------------------------------------------- helpers
Min2(a, b) == IF a <= b THEN a ELSE b

RECURSIVE SeqSum(_)
SeqSum(s) == IF s = <<>> THEN 0 ELSE Head(s) + SeqSum(Tail(s))

RECURSIVE Concat(_)
Concat(ss) == IF ss = <<>> THEN <<>> ELSE Head(ss) \o Concat(Tail(ss))

Range(s) == {s[i] : i \in DOMAIN s}

\* Insert x into the ascending sequence s.
RECURSIVE Insert(_, _)
Insert(x, s) ==
    IF s = <<>> THEN <<x>>
    ELSE IF x <= Head(s) THEN <<x>> \o s
    ELSE <<Head(s)>> \o Insert(x, Tail(s))

\* Ascending sort of a sequence of numbers (np.percentile sorts its input).
RECURSIVE SortInts(_)
SortInts(s) == IF s = <<>> THEN <<>> ELSE Insert(Head(s), SortInts(Tail(s)))

\* ------------------------------------------------------------- city names
\* The generator names its cities "city_<i>", i in range(total_cities).
cities == 0 .. (total_cities - 1)

\* Decimal digits of i: the part of the name "city_<i>" that differs.
RECURSIVE Digits(_)
Digits(i) == IF i < 10 THEN <<i>> ELSE Digits(i \div 10) \o <<i % 10>>

\* Lexicographic order of two digit strings (Python / pandas string order).
RECURSIVE LexLess(_, _)
LexLess(s, t) ==
    IF t = <<>> THEN FALSE
    ELSE IF s = <<>> THEN TRUE
    ELSE IF Head(s) < Head(t) THEN TRUE
    ELSE IF Head(s) > Head(t) THEN FALSE
    ELSE LexLess(Tail(s), Tail(t))

\* "city_<a>" < "city_<b>" as strings.
NameLess(a, b) == LexLess(Digits(a), Digits(b))

\* The cities of set S as a sequence in ascending name order (groupby sorts
\* its group keys).
RECURSIVE SortByName(_)
SortByName(S) ==
    IF S = {} THEN <<>>
    ELSE LET m == CHOOSE x \in S : \A y \in S \ {x} : NameLess(x, y)
         IN  <<m>> \o SortByName(S \ {m})

\* The name-least city of a non-empty set.
NameMin(S) == CHOOSE x \in S : \A y \in S \ {x} : NameLess(x, y)

\* ------------------------------------------------------------ flight records
\* A record as generate_flight_record builds it: all five keys.
Rec(dt, o, d, dur, pax) ==
    [date |-> dt, origin_city |-> o, destination_city |-> d,
     flight_duration_secs |-> dur, num_passengers |-> pax]

\* The record r without key k (a JSON object that lacks the key).
Drop(r, k) == [x \in (DOMAIN r) \ {k} |-> r[x]]

\* The record r with one more, unrecognised key.
WithExtra(r, v) == [x \in (DOMAIN r) \cup {"extra"} |->
                       IF x = "extra" THEN v ELSE r[x]]

\* any(value is None for value in record.values())
IsDirty(record) == \E k \in DOMAIN record : record[k] = Null

\* The DataFrame cell of record r in column k: NaN/None (Null) when the
\* key is missing or its value is None.
Cell(r, k) == IF k \in DOMAIN r THEN r[k] ELSE Null

\* ---------------------------------------------------------- files on disk
\* What json.load and len() see in a file.  kind "array" is a JSON array of
\* objects (recs); "object" and "string" are other JSON values that have a
\* len(); "scalar" is a number, true, false or null; "unparsable" is text
\* that is not JSON.
ArrayFile(recs) == [kind |-> "array", len |-> Len(recs), recs |-> recs]
OtherFile(kind, len) == [kind |-> kind, len |-> len, recs |-> <<>>]

\* The record the one-record files below vary.
BaseRec == Rec(1, 0, 1, 3600, 50)

\* The files a directory may hold, by name.  A and B are the two-file
\* scenario; X and Y together hold TopN + 1 destinations, one record each.
FileLib ==
    [f \in {"A", "B", "X", "Y", "clean", "empty_array",
            "null_date", "null_origin", "null_dest", "null_dur", "null_pax",
            "no_date", "no_origin", "no_dest", "no_dur", "no_pax",
            "extra_null", "extra_value",
            "bad_json", "scalar", "object", "empty_object", "string",
            "empty_string"} |->
      CASE f = "A" -> ArrayFile(<<Rec(1, 0, 1, 3600, 50), Rec(1, 0, 1, 3700, 60),
                                  Rec(1, 0, 1, 3800, 70)>>)
        [] f = "B" -> ArrayFile(<<Rec(1, 1, 2, Null, 80)>>)
        [] f = "X" -> ArrayFile([n \in 1 .. 13 |-> Rec(1, 30, n - 1, 3600, 50)])
        [] f = "Y" -> ArrayFile([n \in 1 .. 13 |-> Rec(1, 30, n + 12, 3600, 50)])
        [] f = "clean" -> ArrayFile(<<Rec(1, 2, 3, 4000, 200)>>)
        [] f = "empty_array" -> ArrayFile(<<>>)
        [] f = "null_date" -> ArrayFile(<<[BaseRec EXCEPT !.date = Null]>>)
        [] f = "null_origin" -> ArrayFile(<<[BaseRec EXCEPT !.origin_city = Null]>>)
        [] f = "null_dest" -> ArrayFile(<<[BaseRec EXCEPT !.destination_city = Null]>>)
        [] f = "null_dur" -> ArrayFile(<<[BaseRec EXCEPT !.flight_duration_secs = Null]>>)
        [] f = "null_pax" -> ArrayFile(<<[BaseRec EXCEPT !.num_passengers = Null]>>)
        [] f = "no_date" -> ArrayFile(<<Drop(BaseRec, "date")>>)
        [] f = "no_origin" -> ArrayFile(<<Drop(BaseRec, "origin_city")>>)
        [] f = "no_dest" -> ArrayFile(<<Drop(BaseRec, "destination_city")>>)
        [] f = "no_dur" -> ArrayFile(<<Drop(BaseRec, "flight_duration_secs")>>)
        [] f = "no_pax" -> ArrayFile(<<Drop(BaseRec, "num_passengers")>>)
        [] f = "extra_null" -> ArrayFile(<<WithExtra(BaseRec, Null)>>)
        [] f = "extra_value" -> ArrayFile(<<WithExtra(BaseRec, 7)>>)
        [] f = "bad_json" -> OtherFile("unparsable", 0)
        [] f = "scalar" -> OtherFile("scalar", 0)
        [] f = "object" -> OtherFile("object", 2)
        [] f = "empty_object" -> OtherFile("object", 0)
        [] f = "string" -> OtherFile("string", 3)
        [] f = "empty_string" -> OtherFile("string", 0)]

FileNames == DOMAIN FileLib

\* The files generate_files can write: arrays of records that hold all five
\* keys with at most one of them None, and values in the generator's ranges.
GeneratorShaped(c) ==
    /\ c.kind = "array"
    /\ c.len >= 1
    /\ \A n \in DOMAIN c.recs :
          LET r == c.recs[n] IN
          /\ DOMAIN r = Keys
          /\ Cardinality({k \in Keys : r[k] = Null}) <= 1
          /\ r.origin_city \in cities \cup {Null}
          /\ r.destination_city \in cities \cup {Null}
          /\ r.flight_duration_secs \in (3600 .. 7200) \cup {Null}
          /\ r.num_passengers \in (50 .. 200) \cup {Null}

GenNames == {f \in FileNames : GeneratorShaped(FileLib[f])}

\* ------------------------------------------------- process_files, one file
\* json.load(f) raises (JSONDecodeError) on text that is not JSON.
LoadRaises(c) == c.kind = "unparsable"
\* len(records) raises TypeError on a number, a boolean or null.
LenRaises(c) == c.kind = "scalar"
\* record.values() raises AttributeError on the first element that is not a
\* dict: a key of a non-empty object, a character of a non-empty string.
IterRaises(c) == c.kind \in {"object", "string"} /\ c.len > 0

\* Mutant of FileRaises: the body of the loop over the files catches what a
\* file raises and goes on to the next file.
FileRaisesCaught(c) == FALSE

\* The file makes process_files raise.
FileRaises(c) == LoadRaises(c) \/ LenRaises(c) \/ IterRaises(c)

\* Number of records of recs that line 115 counts as dirty.
DirtyCount(recs) == Cardinality({n \in DOMAIN recs : IsDirty(recs[n])})

\* ------------------------------------------------- the pandas computations
\* Columns of pd.DataFrame(all_records): every key some record holds.
Columns(recs) == UNION {DOMAIN recs[n] : n \in DOMAIN recs}

\* The group keys of df.groupby(k) and the index of df[k].value_counts():
\* the non-null values of column k (both drop NaN/None).
GroupKeys(recs, k) == {Cell(recs[n], k) : n \in DOMAIN recs} \ {Null}

\* The non-null values of column v in the rows whose column k is c, in row
\* order.
RECURSIVE GroupVals(_, _, _, _)
GroupVals(recs, k, c, v) ==
    IF recs = <<>> THEN <<>>
    ELSE LET r == Head(recs) IN
         (IF Cell(r, k) = c /\ Cell(r, v) # Null THEN <<Cell(r, v)>> ELSE <<>>)
            \o GroupVals(Tail(recs), k, c, v)

\* df['destination_city'].value_counts(): rows per non-null destination.
value_counts(recs) ==
    [c \in GroupKeys(recs, "destination_city") |->
        Cardinality({n \in DOMAIN recs :
                        Cell(recs[n], "destination_city") = c})]

\* The subsets of T with k elements.
RECURSIVE KSubsets(_, _)
KSubsets(T, k) ==
    IF k = 0 THEN {{}}
    ELSE UNION {{D \cup {x} : D \in KSubsets(T \ {x}, k - 1)} : x \in T}

\* The distinct non-null values of column k, in the order the rows first
\* show them (the order pandas' hash table hands them to value_counts).
RECURSIVE FirstSeen(_, _, _)
FirstSeen(recs, k, seen) ==
    IF recs = <<>> THEN <<>>
    ELSE LET c == Cell(Head(recs), k) IN
         IF c = Null \/ c \in seen THEN FirstSeen(Tail(recs), k, seen)
         ELSE <<c>> \o FirstSeen(Tail(recs), k, seen \cup {c})

\* The sequence s rotated left by r places.
Rotate(s, r) == [n \in 1 .. Len(s) |-> s[((n - 1 + r) % Len(s)) + 1]]

\* The destinations whose count is certainly among the TopN largest.
SureTop(vc) ==
    {c \in DOMAIN vc : Cardinality({d \in DOMAIN vc : vc[d] >= vc[c]}) <= TopN}

\* The destinations that share the count at the cut-off, when not all of
\* them fit.
TiedAtCutoff(vc) ==
    {c \in DOMAIN vc :
        /\ Cardinality({d \in DOMAIN vc : vc[d] >= vc[c]}) > TopN
        /\ Cardinality({d \in DOMAIN vc : vc[d] > vc[c]}) < TopN}

\* .value_counts().nlargest(25).index: the TopN destinations with the
\* largest counts.  nlargest keeps, of the destinations that share the count
\* at the cut-off, those that stand first in the value_counts result; there
\* equal counts stand in the order the sort of the build leaves them, a
\* fixed rearrangement of the order in which the rows first show them (that
\* order itself when the sort is stable).  tie_rot names the rearrangement:
\* the builds modelled are the rotations, 0 being the stable sort.
nlargest(recs, tie_rot) ==
    LET vc == value_counts(recs)
        sure == SureTop(vc)
        tie == TiedAtCutoff(vc)
        need == Min2(TopN, Cardinality(DOMAIN vc)) - Cardinality(sure)
        order == SelectSeq(FirstSeen(recs, "destination_city", {}),
                           LAMBDA c : c \in tie)
    IN  IF tie = {} THEN sure
        ELSE sure \cup {Rotate(order, tie_rot)[n] : n \in 1 .. need}

\* np.percentile(x, 95), times 20: linear interpolation at the virtual index
\* 0.95 * (n - 1) of the sorted values; the lambda gives 0 for no values.
Percentile95x20(x) ==
    IF Len(x) = 0 THEN 0
    ELSE LET a == SortInts(x)
             r == 19 * (Len(x) - 1)
             lo == (r \div 20) + 1
             hi == Min2(lo + 1, Len(x))
         IN  20 * a[lo] + (r % 20) * (a[hi] - a[lo])

\* One row of avg_p95: 'mean' is dur_sum / dur_n (NaN when dur_n = 0).
AvgP95Row(recs, c) ==
    LET x == GroupVals(recs, "destination_city", c, "flight_duration_secs")
    IN  [city |-> c, dur_n |-> Len(x), dur_sum |-> SeqSum(x),
         p95_x20 |-> Percentile95x20(x)]

\* df_top_25.groupby('destination_city')[...].agg(...).reset_index(): one
\* row per selected city, in ascending order of the city name.
avg_p95(recs, top) ==
    LET order == SortByName(top)
    IN  [n \in DOMAIN order |-> AvgP95Row(recs, order[n])]

\* df.groupby(k)['num_passengers'].sum(): the sum skips NaN.
GroupSum(recs, k) ==
    [c \in GroupKeys(recs, k) |-> SeqSum(GroupVals(recs, k, c, "num_passengers"))]

\* .idxmax() on a frame sorted by group key: the first row that holds the
\* maximum, the name-least city among the maxima.
idxmax(m) == NameMin({c \in DOMAIN m : \A d \in DOMAIN m : m[d] <= m[c]})

\* Lines 122-142 raise for certain: an empty frame or a missing column is a
\* KeyError, idxmax of an empty series a ValueError.
MustRaise(recs) ==
    \/ recs = <<>>
    \/ ~({"destination_city", "flight_duration_secs", "num_passengers",
          "origin_city"} \subseteq Columns(recs))
    \/ GroupKeys(recs, "destination_city") = {}
    \/ GroupKeys(recs, "origin_city") = {}

\* A numeric column that holds only None is an object column; whether mean
\* and sum of it raise depends on the pandas build.
MayRaise(recs) ==
    \E k \in {"flight_duration_secs", "num_passengers"} :
        /\ k \in Columns(recs)
        /\ \A n \in DOMAIN recs : Cell(recs[n], k) = Null

\* What the pandas/numpy build decides: whether mean and sum of an all-None
\* column raise, and how the sort of value_counts leaves equal counts.
NoBuild == [object_raises |-> FALSE, tie_rot |-> 0]

\* The builds that can differ on the records collected.
Builds(recs) ==
    {[object_raises |-> o, tie_rot |-> t] :
        o \in (IF MayRaise(recs) THEN BOOLEAN ELSE {FALSE}),
        t \in (IF MustRaise(recs) \/ TiedAtCutoff(value_counts(recs)) = {}
               THEN {0}
               ELSE 0 .. (Cardinality(TiedAtCutoff(value_counts(recs))) - 1))}

\* The locals of process_files after line 142.
NoFrame ==
    [raised |-> FALSE, top_25_cities |-> {}, avg_p95 |-> <<>>,
     df_arrived |-> <<>>, df_left |-> <<>>, max_arrived |-> Null,
     max_left |-> Null]

RaisedFrame == [NoFrame EXCEPT !.raised = TRUE]

\* Lines 122-142 on the records collected, under build b.
MkFrame(recs, b) ==
    IF MustRaise(recs) \/ (MayRaise(recs) /\ b.object_raises) THEN RaisedFrame
    ELSE LET top == nlargest(recs, b.tie_rot)
             arr == GroupSum(recs, "destination_city")
             lft == GroupSum(recs, "origin_city")
         IN  [raised |-> FALSE, top_25_cities |-> top,
              avg_p95 |-> avg_p95(recs, top),
              df_arrived |-> arr, df_left |-> lft,
              max_arrived |-> idxmax(arr), max_left |-> idxmax(lft)]

\* The lines process_files prints (147-153).
ReportLines ==
    <<"Total records processed", "Dirty records", "Run duration",
      "AVG and P95 header", "avg_p95", "City with most passengers arrived",
      "City with most passengers left">>

\* -------------------------------------------------------------------- state
VARIABLES
    pc,             \* where main() is
    dir_exists,     \* tmp/flights exists
    disk,           \* names of the files in tmp/flights
    written,        \* files generate_files wrote in this run
    i,              \* generate_files' loop index
    remaining,      \* files os.walk has still to yield
    walked,         \* files process_files consumed, in order
    total_records,
    dirty_records,
    all_records,
    build,          \* what the pandas build decided in lines 122-142
    frame,          \* locals of lines 122-142
    out             \* lines printed

vars == <<pc, dir_exists, disk, written, i, remaining, walked, total_records,
          dirty_records, all_records, build, frame, out>>

genVars == <<dir_exists, disk, written, i>>
procVars == <<remaining, walked, total_records, dirty_records, all_records,
              build, frame>>

\* Directory contents a run may find: at most MaxFiles files of FileLib.
Corpora == UNION {KSubsets(FileNames, n) : n \in 0 .. MaxFiles}

NoLocals ==
    /\ written = {}
    /\ i = 0
    /\ remaining = {}
    /\ walked = <<>>
    /\ total_records = 0
    /\ dirty_records = 0
    /\ all_records = <<>>
    /\ build = NoBuild
    /\ frame = NoFrame
    /\ out = <<>>

\* main() starts; tmp/flights may be left over from anything.
Init ==
    /\ pc = "generate"
    /\ dir_exists \in BOOLEAN
    /\ disk \in (IF dir_exists THEN Corpora ELSE {{}})
    /\ NoLocals

\* process_files() is called on a directory that holds any corpus.
InitP ==
    /\ pc = "process"
    /\ dir_exists = TRUE
    /\ disk \in Corpora
    /\ NoLocals

\* ------------------------------------------------------------ generate_files
\* Lines 67-70: an existing folder is removed.  rmtree may fail after
\* removing some of the files.
GenRemove ==
    /\ pc = "generate"
    /\ IF ~dir_exists
       THEN /\ pc' = "makedirs"
            /\ UNCHANGED <<dir_exists, disk, out>>
       ELSE \E ok \in BOOLEAN :
              IF ok
              THEN /\ disk' = {}
                   /\ dir_exists' = FALSE
                   /\ out' = out \o <<"exists", "removed">>
                   /\ pc' = "makedirs"
              ELSE /\ disk' \in SUBSET disk
                   /\ dir_exists' = TRUE
                   /\ out' = Append(out, "exists")
                   /\ pc' = "gen_oserror"
    /\ UNCHANGED <<written, i>>
    /\ UNCHANGED procVars

\* Lines 72-75: os.makedirs raises when the folder exists or cannot be made.
GenMakedirs ==
    /\ pc = "makedirs"
    /\ \E ok \in BOOLEAN :
          IF ok /\ ~dir_exists
          THEN /\ dir_exists' = TRUE
               /\ out' = out \o <<"created", "Generating files">>
               /\ pc' = "write"
          ELSE /\ dir_exists' = dir_exists
               /\ out' = out
               /\ pc' = "gen_oserror"
    /\ i' = 0
    /\ UNCHANGED <<disk, written>>
    /\ UNCHANGED procVars

\* Lines 77-87, one iteration: a file of random records is written.  A
\* failing open or write may leave a truncated file behind.
GenWriteFile ==
    /\ pc = "write"
    /\ i < number_files
    /\ \E f \in GenNames, ok \in BOOLEAN :
          IF ok
          THEN /\ disk' = disk \cup {f}
               /\ written' = written \cup {f}
               /\ i' = i + 1
               /\ pc' = "write"
          ELSE /\ disk' \in {disk, disk \cup {"bad_json"}}
               /\ written' = written
               /\ i' = i
               /\ pc' = "gen_oserror"
    /\ UNCHANGED <<dir_exists, out>>
    /\ UNCHANGED procVars

\* Line 89 and the return to main, which calls process_files (line 165).
GenFinish ==
    /\ pc = "write"
    /\ i = number_files
    /\ out' = Append(out, "Generating files finished")
    /\ pc' = "process"
    /\ UNCHANGED genVars
    /\ UNCHANGED procVars

\* Mutant of GenOSError: the handler prints and does not raise again, so
\* main goes on to process_files.
GenOSErrorNoRaise ==
    /\ pc = "gen_oserror"
    /\ out' = out \o <<"oserror", "exists, can not be removed">>
    /\ pc' = "process"
    /\ UNCHANGED genVars
    /\ UNCHANGED procVars

\* Lines 90-93: the handler prints and raises OSError again.
GenOSError ==
    /\ pc = "gen_oserror"
    /\ out' = out \o <<"oserror", "exists, can not be removed">>
    /\ pc' = "raised_os"
    /\ UNCHANGED genVars
    /\ UNCHANGED procVars

\* ------------------------------------------------------------- process_files
\* Lines 99-107: the counters start at 0 and os.walk lists the folder (it
\* yields nothing for a folder that does not exist).
ProcessStart ==
    /\ pc = "process"
    /\ total_records' = 0
    /\ dirty_records' = 0
    /\ all_records' = <<>>
    /\ remaining' = (IF dir_exists THEN disk ELSE {})
    /\ walked' = <<>>
    /\ pc' = "walk"
    /\ UNCHANGED <<build, frame, out>>
    /\ UNCHANGED genVars

\* Lines 108-119 for one file, in whatever order os.walk yields the files.
ProcessFile ==
    /\ pc = "walk"
    /\ \E file \in remaining :
          LET records == FileLib[file] IN
          /\ remaining' = remaining \ {file}
          /\ total_records' =
                (IF LoadRaises(records) \/ LenRaises(records)
                 THEN total_records ELSE total_records + records.len)
          /\ IF FileRaises(records)
             THEN /\ pc' = "raised_exc"
                  /\ UNCHANGED <<dirty_records, all_records, walked>>
             ELSE /\ pc' = "walk"
                  /\ dirty_records' = dirty_records + DirtyCount(records.recs)
                  /\ all_records' = all_records \o records.recs
                  /\ walked' = Append(walked, file)
    /\ UNCHANGED <<build, frame, out>>
    /\ UNCHANGED genVars

\* Lines 122-153: the frame is built, the statistics computed and the report
\* printed, unless something raises on the way.
Report ==
    /\ pc = "walk"
    /\ remaining = {}
    /\ \E b \in Builds(all_records) :
          /\ build' = b
          /\ frame' = MkFrame(all_records, b)
          /\ IF frame'.raised
             THEN pc' = "raised_exc" /\ out' = out
             ELSE pc' = "done" /\ out' = out \o ReportLines
    /\ UNCHANGED <<remaining, walked, total_records, dirty_records, all_records>>
    /\ UNCHANGED genVars

\* ---------------------------------------------------------- main's handlers
\* Lines 167-168.
MainExceptOSError ==
    /\ pc = "raised_os"
    /\ out' = Append(out, "Error")
    /\ pc' = "done"
    /\ UNCHANGED genVars
    /\ UNCHANGED procVars

\* Lines 170-171.
MainExceptException ==
    /\ pc = "raised_exc"
    /\ out' = Append(out, "Exception occured , can not proceed further")
    /\ pc' = "done"
    /\ UNCHANGED genVars
    /\ UNCHANGED procVars

\* ------------------------------------------------------------ specifications
Next ==
    \/ GenRemove
    \/ GenMakedirs
    \/ GenWriteFile
    \/ GenFinish
    \/ GenOSError
    \/ ProcessStart
    \/ ProcessFile
    \/ Report
    \/ MainExceptOSError
    \/ MainExceptException

Spec == Init /\ [][Next]_vars

NextP ==
    \/ ProcessStart
    \/ ProcessFile
    \/ Report
    \/ MainExceptException

SpecP == InitP /\ [][NextP]_vars

\* ---------------------------------------------------- what the claims speak of
\* The records of the files named by the sequence names, in that order.
RecordsOf(names) == Concat([n \in DOMAIN names |-> FileLib[names[n]].recs])

\* The records process_files has consumed so far.
Consumed == RecordsOf(walked)

\* A clean record: all five fields present and non-null.
Clean(r) == Keys \subseteq DOMAIN r /\ \A k \in Keys : r[k] # Null

CleanRecs(recs) == SelectSeq(recs, Clean)

\* The report was printed.
Printed == "Total records processed" \in Range(out)

\* The report was printed and none of its values rests on how the pandas
\* build treats an all-None column.
Reported == pc = "done" /\ Printed /\ ~MayRaise(all_records)

\* Cities that appear as origin or destination in any of the records.
CitiesSeen(recs) ==
    GroupKeys(recs, "origin_city") \cup GroupKeys(recs, "destination_city")

\* Passengers of the clean records whose column k is city c.
CleanSum(recs, k, c) == SeqSum(GroupVals(CleanRecs(recs), k, c, "num_passengers"))

\* Number of clean records with destination c.
CleanFreq(recs, c) ==
    Cardinality({n \in DOMAIN recs :
                    Clean(recs[n]) /\ recs[n].destination_city = c})

\* The cities of S by descending clean frequency, ties by ascending name.
RECURSIVE RankByFreq(_, _)
RankByFreq(S, recs) ==
    IF S = {} THEN <<>>
    ELSE LET m == CHOOSE x \in S : \A y \in S \ {x} :
                     \/ CleanFreq(recs, x) > CleanFreq(recs, y)
                     \/ /\ CleanFreq(recs, x) = CleanFreq(recs, y)
                        /\ NameLess(x, y)
         IN  <<m>> \o RankByFreq(S \ {m}, recs)

\* The cities of the top-25 table as the specification selects and orders
\* them.
RankedTop(recs) ==
    LET D == GroupKeys(CleanRecs(recs), "destination_city")
        ranked == RankByFreq(D, recs)
    IN  SubSeq(ranked, 1, Min2(TopN, Cardinality(D)))

Reverse(s) == [n \in 1 .. Len(s) |-> s[Len(s) + 1 - n]]

\* --------------------------------------------------------------------- claims
\* C1: a record with at least one null field contributes only to
\* total_records and dirty_records: the destination frequencies, the
\* durations behind avg/p95 and the arrival and departure sums are those of
\* the clean records alone.
C1_DirtyExcluded ==
    Reported =>
        /\ \A c \in DOMAIN value_counts(all_records) :
              value_counts(all_records)[c] = CleanFreq(Consumed, c)
        /\ \A n \in DOMAIN frame.avg_p95 :
              frame.avg_p95[n] =
                 AvgP95Row(CleanRecs(Consumed), frame.avg_p95[n].city)
        /\ \A c \in DOMAIN frame.df_arrived :
              frame.df_arrived[c] = CleanSum(Consumed, "destination_city", c)
        /\ \A c \in DOMAIN frame.df_left :
              frame.df_left[c] = CleanSum(Consumed, "origin_city", c)

\* C2: after any sequence of files, total_records = dirty_records + the
\* number of clean records consumed, and dirty_records <= total_records.
C2_TotalPartition ==
    (pc = "walk") =>
        /\ total_records = dirty_records + Len(CleanRecs(Consumed))
        /\ dirty_records <= total_records

\* A file whose top-level JSON is not an array, or that is not JSON.
Malformed(f) == FileLib[f].kind # "array"

\* C3 as stated: with a malformed file in the folder the run still completes
\* and prints the report, the counts are those of the other files, and one
\* warning is recorded for each malformed file.
C3_MalformedRecovered ==
    (pc = "done" /\ \E f \in disk : Malformed(f)) =>
        /\ Printed
        /\ total_records =
              SeqSum([n \in DOMAIN walked |-> FileLib[walked[n]].len])
        /\ Range(walked) = {f \in disk : ~Malformed(f)}
        /\ Cardinality({n \in DOMAIN out : out[n] \notin Range(ReportLines)})
              = Cardinality({f \in disk : Malformed(f)})

\* A JSON object without keys or a JSON string without characters.
EmptyValue(f) == FileLib[f].kind \in {"object", "string"} /\ FileLib[f].len = 0

\* C3 as amended: a file that is not JSON, a JSON number, boolean or null,
\* or a non-empty JSON object or string makes process_files raise; main's
\* generic handler ends the run, which prints no report (no count of any
\* file) and exactly one line, the handler's.  An empty JSON object or
\* string is consumed like an empty array: it adds nothing to the counts and
\* leaves no warning.
C3_MalformedAborts ==
    /\ (pc = "done" /\ \E f \in disk : Malformed(f) /\ ~EmptyValue(f)) =>
          /\ ~Printed
          /\ out = <<"Exception occured , can not proceed further">>
    /\ (pc = "done" /\ Printed) =>
          /\ Range(walked) = disk
          /\ out = ReportLines
          /\ total_records = Len(Consumed)
          /\ \A f \in disk : Malformed(f) => FileLib[f].len = 0

\* C3's case: the run ended on a malformed file after a valid file with
\* records had been consumed.
C3_Witness ==
    /\ pc = "done"
    /\ \E f \in disk : Malformed(f) /\ ~EmptyValue(f)
    /\ walked # <<>>
    /\ total_records >= 3
    /\ out = <<"Exception occured , can not proceed further">>

\* C4: the top-25 table has min(25, destinations with a clean record) rows,
\* the cities of highest clean frequency (ties at the cut-off by ascending
\* name), in order of descending clean frequency, ties by ascending name.
\* Stated for the corpora that hold clean records only, where the clean
\* frequency of a city is its frequency over all records.
C4_Top25Table ==
    (Reported /\ \A n \in DOMAIN Consumed : Clean(Consumed[n])) =>
        [n \in DOMAIN frame.avg_p95 |-> frame.avg_p95[n].city]
            = RankedTop(Consumed)

\* C5: the report does not depend on the order in which the files are
\* processed: the same build, given the same files in the reverse order,
\* computes the same top-25 rows and the same max-arrival and max-departure
\* cities and totals.
C5_OrderInvariant ==
    Reported =>
        MkFrame(RecordsOf(Reverse(walked)), build) = frame

\* C6: a record is counted dirty iff one of the five fields is null or
\* missing; extra keys do not matter.
C6_DirtyIffNullOrMissing ==
    \A n \in DOMAIN Consumed : IsDirty(Consumed[n]) <=> ~Clean(Consumed[n])

\* C7: the arrival-sum map and the departure-sum map each hold every city
\* that appears as origin or destination in any record, with 0 for a city
\* without clean arrivals (departures).
C7_SumMapsCoverAllCities ==
    Reported =>
        /\ DOMAIN frame.df_arrived = CitiesSeen(Consumed)
        /\ DOMAIN frame.df_left = CitiesSeen(Consumed)

\* C8: the max-arrival city has the largest sum of passengers of clean
\* records over all cities seen, the name-least such city on a tie; the
\* max-departure city likewise for departures.
C8_MaxSelection ==
    Reported =>
        LET S == CitiesSeen(Consumed)
            arr == [c \in S |-> CleanSum(Consumed, "destination_city", c)]
            lft == [c \in S |-> CleanSum(Consumed, "origin_city", c)]
        IN  /\ frame.max_arrived = idxmax(arr)
            /\ frame.df_arrived[frame.max_arrived] = arr[idxmax(arr)]
            /\ frame.max_left = idxmax(lft)
            /\ frame.df_left[frame.max_left] = lft[idxmax(lft)]

\* C9: every row of the table holds the mean and the interpolated 95th
\* percentile of the city's clean durations, and the two-file scenario
\* (files A and B) reports total_records = 4, dirty_records = 1 and a table
\* of one row, city_1 with avg 3700 and p95 3790.
C9_AvgP95 ==
    (Reported /\ disk = {"A", "B"}) =>
        /\ total_records = 4
        /\ dirty_records = 1
        /\ \A n \in DOMAIN frame.avg_p95 :
              frame.avg_p95[n] =
                 AvgP95Row(CleanRecs(Consumed), frame.avg_p95[n].city)
        /\ frame.avg_p95 =
              <<[city |-> 1, dur_n |-> 3, dur_sum |-> 3 * 3700,
                 p95_x20 |-> 20 * 3790]>>

\* process_files has been entered.
InProcess == pc \in {"process", "walk", "raised_exc"} \/ walked # <<>> \/ Printed

\* C10: process_files starts only after generate_files has removed an older
\* folder, made it anew and written all its files, so every file it reads
\* was written in this run; after an OSError in generate_files it never
\* runs and no report line is printed.
C10_GenerateBeforeProcess ==
    /\ InProcess =>
          /\ "Generating files finished" \in Range(out)
          /\ "Error" \notin Range(out)
          /\ i = number_files
          /\ disk = written
          /\ Range(walked) \subseteq written
    /\ (pc \in {"gen_oserror", "raised_os"} \/ "Error" \in Range(out)) =>
          /\ ~InProcess
          /\ frame = NoFrame
          /\ \A n \in DOMAIN out : out[n] \notin Range(ReportLines)

\* C10's case: an older folder was removed, the files were generated and
\* the report on them was printed.
C10_Witness ==
    /\ pc = "done"
    /\ Printed
    /\ "removed" \in Range(out)
    /\ Range(walked) = written
    /\ written # {}

====
